---- MODULE Spec2Model ----
(***************************************************************************)
(* Model of the ADT7320 SPI driver (src/lib/adt7320.c, src/lib/adt7320.h). *)
(*                                                                         *)
(* The driver is synchronous and keeps no state between calls, so every    *)
(* API function is one action.  The HAL is replaced by a recording         *)
(* transport: `log' holds, in call order, the HAL calls the last driver    *)
(* call made (chip-select writes and SPI exchanges with the bytes put on   *)
(* the wire and the HAL result).  Two transports are modelled:             *)
(*   - loop = FALSE : a mock that may answer any HAL status and any bytes; *)
(*   - loop = TRUE  : a loopback device that decodes the command byte,     *)
(*                    stores written payloads per address and answers a    *)
(*                    read with the stored payload.                        *)
(* Numbers are written in decimal, the hexadecimal value is in a comment.  *)
(***************************************************************************)
EXTENDS Integers, Sequences, FiniteSets, TLC

VARIABLES
    loop,          \* which transport is attached (fixed for a behaviour)
    regs,          \* loopback device: payload bytes stored, by address written
    ncalls,        \* loopback only: driver calls made so far
    cs,            \* level of the chip-select pin ("SET" = deasserted)
    call,          \* the last driver call: function and arguments
    log,           \* HAL calls made by the last driver call, in order
    status,        \* value returned by the last driver call (<<>>: none)
    pData,         \* *pData after the last register read (<<>>: none was made)
    pTemperature,  \* *pTemperature after the last call (<<>>: none)
    fault          \* the program has crashed inside the last call

vars == <<loop, regs, ncalls, cs, call, log, status, pData, pTemperature, fault>>

----------------------------------------------------------------------------
(* Bounds of the model *)

\* dataSize is a uint8_t; sizes 0..MaxSize are explored (sizes above 2 overrun
\* the 3-byte buffers)
MaxSize == 3
\* reg is a uint8_t; addresses 0..MaxReg are explored
MaxReg == 31
\* driver calls per behaviour on the loopback device
MaxCalls == 2

\* bytes the mock transport may answer with (0x00, 0x23, 0x80, 0xF6)
ByteSamples == {0, 35, 128, 246}
\* bytes found in, or received into, memory behind a 3-byte buffer (0x00, 0xF6)
StrayBytes == {0, 246}
\* values passed as `data' to ADT7320_WriteRegister
\* 0x0000, 0x0080, 0x00F6, 0x2300, 0xF600
DataSamples == {0, 128, 246, 8960, 62976}
\* content of the caller's *pData before a call (0x0000, 0xBEEF)
OldData == {0, 48879}

----------------------------------------------------------------------------
(* Constants of the driver *)

ADT7320_READ == 64
ADT7320_WRITE == 0
ADT7320_TEMP == 2
ADT7320_OK == 0
ADT7320_ERROR == 1
ADT7320_BUSY == 2
ADT7320_TIMEOUT == 3

\* HAL_StatusTypeDef: HAL_OK, HAL_ERROR, HAL_BUSY, HAL_TIMEOUT
HAL_Status == 0 .. 3

\* the two values of the pConfig argument
Handles == {"NULL", "valid"}

----------------------------------------------------------------------------
(* C integer arithmetic *)

RECURSIVE BitOr(_, _)
BitOr(a, b) ==
    IF a = 0 THEN b
    ELSE IF b = 0 THEN a
    ELSE (IF (a % 2 = 1) \/ (b % 2 = 1) THEN 1 ELSE 0) + 2 * BitOr(a \div 2, b \div 2)

RECURSIVE BitAnd(_, _)
BitAnd(a, b) ==
    IF a = 0 \/ b = 0 THEN 0
    ELSE (IF (a % 2 = 1) /\ (b % 2 = 1) THEN 1 ELSE 0) + 2 * BitAnd(a \div 2, b \div 2)

RECURSIVE Pow2(_)
Pow2(n) == IF n = 0 THEN 1 ELSE 2 * Pow2(n - 1)

Uint8(x) == x % 256
Uint16(x) == x % 65536
\* (int16_t) of a uint16_t value: GCC and IAR, the two supported compilers,
\* reduce modulo 2^16
ToInt16(x) == IF x >= 32768 THEN x - 65536 ELSE x

----------------------------------------------------------------------------
(* float arithmetic *)

\* A float is kept as the reduced fraction num/den, den a power of two.  Every
\* quotient of a 16-bit integer by 128 has such a fraction with at most 16
\* significant bits, so the float division is exact.
RECURSIVE Reduce(_, _)
Reduce(n, d) ==
    IF d > 1 /\ n % 2 = 0 THEN Reduce(n \div 2, d \div 2)
    ELSE [num |-> n, den |-> d]

\* x / 128.0f for an integer x
DivFloat128(x) == Reduce(x, 128)

\* content of the caller's *pTemperature before a call: 0.0 and 25.5
OldTemperature == {[num |-> 0, den |-> 1], [num |-> 51, den |-> 2]}

----------------------------------------------------------------------------
(* The recording transport *)

\* an entry of the record: the HAL function, and either the pin level written
\* or the bytes sent (tx), the bytes answered after the first (rx) and the
\* HAL status returned (ret)
GpioWrite(pin) == [fn |-> "HAL_GPIO_WritePin", pin |-> pin, tx |-> <<>>, rx |-> <<>>, ret |-> 0]
SpiCall(fn, tx, rx, ret) == [fn |-> fn, pin |-> "", tx |-> tx, rx |-> rx, ret |-> ret]

IsGpio(e) == e.fn = "HAL_GPIO_WritePin"
IsSpi(e) == e.fn \in {"HAL_SPI_Transmit", "HAL_SPI_TransmitReceive"}

\* the pin level after the HAL calls of `l', starting from level `c'
RECURSIVE CsAfter(_, _)
CsAfter(c, l) ==
    IF l = <<>> THEN c
    ELSE CsAfter(IF IsGpio(Head(l)) THEN Head(l).pin ELSE c, Tail(l))

Zeros(n) == [i \in 1 .. n |-> 0]

\* the stored payload of address a as n bytes, missing bytes read as 0
Stored(a, n) ==
    LET have == IF a \in DOMAIN regs THEN regs[a] ELSE <<>>
    IN  [i \in 1 .. n |-> IF i <= Len(have) THEN have[i] ELSE 0]

\* the memory with the payload of address a replaced
Store(a, payload) ==
    [x \in DOMAIN regs \cup {a} |-> IF x = a THEN payload ELSE regs[x]]

\* loopback device: the direction is bit 6 of the command byte, the address
\* is what the other bits of the field 7..3 hold (bits 5..3 and bit 7)
LoopIsRead(cmd) == BitAnd(cmd, 64) # 0
LoopAddress(cmd) == ((cmd \div 8) % 8) + (16 * ((cmd \div 128) % 2))

\* the loopback device's answer to a transmit of the bytes tx
LoopTransmit(tx) ==
    IF LoopIsRead(tx[1])
    THEN {[ret |-> 0, regs |-> regs]}
    ELSE {[ret |-> 0, regs |-> Store(LoopAddress(tx[1]), Tail(tx))]}

\* the loopback device's answer to an exchange of the bytes tx
LoopTransmitReceive(tx) ==
    IF LoopIsRead(tx[1])
    THEN {[ret |-> 0, rx |-> Stored(LoopAddress(tx[1]), Len(tx) - 1), regs |-> regs]}
    ELSE {[ret |-> 0, rx |-> Zeros(Len(tx) - 1),
           regs |-> Store(LoopAddress(tx[1]), Tail(tx))]}

\* the byte sequences of length n the mock may answer with: the two bytes that
\* fit the buffer, then those that land behind it
Answers(n) ==
    {a \o b : a \in [1 .. (IF n < 2 THEN n ELSE 2) -> ByteSamples],
              b \in [1 .. (IF n < 2 THEN 0 ELSE n - 2) -> StrayBytes]}

\* HAL_SPI_Transmit of the bytes tx: the possible answers, each the HAL status
\* and the loopback device's memory afterwards.
Transmit(tx) ==
    IF loop
    THEN LoopTransmit(tx)
    ELSE {[ret |-> r, regs |-> regs] : r \in HAL_Status}

\* HAL_SPI_TransmitReceive of the bytes tx: as Transmit, with rx the bytes
\* received after the command byte (the byte received during the command
\* byte lands in txRxBuf[0], which the driver never reads).  After a failed
\* exchange the buffer holds whatever the HAL left there.
TransmitReceive(tx) ==
    IF loop
    THEN LoopTransmitReceive(tx)
    ELSE {[ret |-> r, rx |-> x, regs |-> regs] :
              r \in HAL_Status, x \in Answers(Len(tx) - 1)}

\* bytes lying behind a 3-byte buffer when n bytes of it are used
Stray(n) == IF n > 3 THEN [1 .. n - 3 -> StrayBytes] ELSE {<<>>}

----------------------------------------------------------------------------
(* The driver *)

\* (mutant) the call returns on a failed exchange without releasing chip-select
TransactionEarlyReturn(fn, tx, rx, ret) ==
    IF ret = 0
    THEN <<GpioWrite("RESET"), SpiCall(fn, tx, rx, ret), GpioWrite("SET")>>
    ELSE <<GpioWrite("RESET"), SpiCall(fn, tx, rx, ret)>>

\* chip-select low, one exchange, chip-select high
Transaction(fn, tx, rx, ret) ==
    <<GpioWrite("RESET"), SpiCall(fn, tx, rx, ret), GpioWrite("SET")>>

\* (mutant) every failure is reported as ADT7320_ERROR
CastStatusCollapsed(ret) == IF ret = 0 THEN 0 ELSE 1

\* (ADT7320_StatusTypeDef) of a HAL status: the enumerator with that value
CastStatus(ret) == ret

\* (mutant) a reset sequence one byte short
InitDataShort == <<255, 255, 255>>

InitData == <<255, 255, 255, 255>>

InitArgsInvalid(hnd) == hnd = "NULL"

\* outcomes of ADT7320_Init(pConfig)
InitOutcomes(hnd) ==
    IF InitArgsInvalid(hnd)
    THEN {[status |-> <<ADT7320_ERROR>>, log |-> <<>>, regs |-> regs, fault |-> FALSE]}
    ELSE {[status |-> <<CastStatus(x.ret)>>,
           log |-> Transaction("HAL_SPI_Transmit", InitData, <<>>, x.ret),
           regs |-> x.regs, fault |-> FALSE] : x \in Transmit(InitData)}

ReadArgsInvalid(hnd, dataSize) == (hnd = "NULL") \/ (dataSize = 0)

ReadCommand(reg) == Uint8(BitOr(ADT7320_READ, (BitAnd(reg, 31) * 8)))

\* the loop over txRxBuf[1 .. dataSize]
RECURSIVE Assemble(_, _)
Assemble(rxData, bytes) ==
    IF bytes = <<>> THEN rxData
    ELSE Assemble(Uint16(BitOr(rxData * 256, Head(bytes))), Tail(bytes))

\* (mutant) *pData is written only after a successful exchange
ReadStoreOnSuccess(ret, old, rxData) == IF ret = 0 THEN rxData ELSE old

\* *pData after the exchange: the value assembled from the buffer
ReadStore(ret, old, rxData) == rxData

\* outcomes of ADT7320_ReadRegister(pConfig, reg, dataSize, pData), *pData = old.
\* With dataSize > 2 the exchange runs past txRxBuf[3]: the bytes sent from
\* behind the buffer are arbitrary, and the bytes received overwrite the
\* caller's stack, after which the call may also never return.
ReadRegisterOutcomes(hnd, reg, dataSize, old) ==
    IF ReadArgsInvalid(hnd, dataSize)
    THEN {[status |-> <<ADT7320_ERROR>>, log |-> <<>>, out |-> old,
           regs |-> regs, fault |-> FALSE]}
    ELSE LET n == dataSize + 1
             buf == <<ReadCommand(reg), 0, 0>>
             Tx(stray) == SubSeq(buf, 1, IF n < 3 THEN n ELSE 3) \o stray
             Done(tx, x) ==
                 [status |-> <<CastStatus(x.ret)>>,
                  log |-> Transaction("HAL_SPI_TransmitReceive", tx, x.rx, x.ret),
                  out |-> ReadStore(x.ret, old, Assemble(0, x.rx)),
                  regs |-> x.regs, fault |-> FALSE]
             Crash(tx, x) ==
                 [status |-> <<>>,
                  log |-> Transaction("HAL_SPI_TransmitReceive", tx, x.rx, x.ret),
                  out |-> old, regs |-> x.regs, fault |-> TRUE]
         IN  UNION {{Done(Tx(s), x) : x \in TransmitReceive(Tx(s))} : s \in Stray(n)}
             \cup (IF n > 3
                   THEN UNION {{Crash(Tx(s), x) : x \in TransmitReceive(Tx(s))} : s \in Stray(n)}
                   ELSE {})

\* (mutant) the handle is not checked
WriteArgsInvalidNoNullCheck(hnd, dataSize) == dataSize = 0

WriteArgsInvalid(hnd, dataSize) == (hnd = "NULL") \/ (dataSize = 0)

WriteCommand(reg) == Uint8(BitOr(ADT7320_WRITE, (BitAnd(reg, 31) * 8)))

\* (mutant) least-significant byte first
PayloadByteLittleEndian(dataSize, data, k) == Uint8(data \div Pow2(8 * (k - 1)))

\* txBuf[i + 1] for i = 0 .. dataSize - 1 (here k = i + 1)
PayloadByte(dataSize, data, k) == Uint8(data \div Pow2(8 * (dataSize - k)))

\* outcomes of ADT7320_WriteRegister(pConfig, reg, dataSize, data).  With
\* dataSize > 2 the bytes txBuf[3 ..] are stored behind the buffer: what is
\* sent from there is arbitrary, and the call may never return.
WriteRegisterOutcomes(hnd, reg, dataSize, data) ==
    IF WriteArgsInvalid(hnd, dataSize)
    THEN {[status |-> <<ADT7320_ERROR>>, log |-> <<>>, regs |-> regs, fault |-> FALSE]}
    ELSE LET n == dataSize + 1
             buf == <<WriteCommand(reg)>>
                    \o [k \in 1 .. (IF n < 3 THEN n ELSE 3) - 1 |-> PayloadByte(dataSize, data, k)]
             Tx(stray) == buf \o stray
             Done(tx, x) ==
                 [status |-> <<CastStatus(x.ret)>>,
                  log |-> Transaction("HAL_SPI_Transmit", tx, <<>>, x.ret),
                  regs |-> x.regs, fault |-> FALSE]
             Crash(tx, x) ==
                 [status |-> <<>>,
                  log |-> Transaction("HAL_SPI_Transmit", tx, <<>>, x.ret),
                  regs |-> x.regs, fault |-> TRUE]
         IN  UNION {{Done(Tx(s), x) : x \in Transmit(Tx(s))} : s \in Stray(n)}
             \cup (IF n > 3
                   THEN UNION {{Crash(Tx(s), x) : x \in Transmit(Tx(s))} : s \in Stray(n)}
                   ELSE {})

TemperatureArgsInvalid(hnd) == hnd = "NULL"

\* (mutant) the raw value is never taken as signed
ConvertTemperatureUnsigned(data) == DivFloat128(data)

\* the conversion of the raw register value to degrees
ConvertTemperature(data) ==
    IF BitAnd(data, 32768) # 0
    THEN DivFloat128(ToInt16(data))
    ELSE DivFloat128(data)

\* outcomes of ADT7320_ReadTemperature(pConfig, pTemperature), *pTemperature = old;
\* data is the local the register is read into
ReadTemperatureOutcomes(hnd, old) ==
    IF TemperatureArgsInvalid(hnd)
    THEN {[status |-> <<ADT7320_ERROR>>, log |-> <<>>, data |-> 0, out |-> old,
           regs |-> regs, fault |-> FALSE]}
    ELSE {[status |-> r.status, log |-> r.log, data |-> r.out,
           out |-> IF r.status = <<ADT7320_OK>> THEN ConvertTemperature(r.out) ELSE old,
           regs |-> r.regs, fault |-> r.fault] :
              r \in ReadRegisterOutcomes(hnd, ADT7320_TEMP, 2, 0)}

----------------------------------------------------------------------------
(* The state machine *)

NoCall == [fn |-> "none", hnd |-> "NULL", reg |-> 0, size |-> 0, data |-> 0, old |-> <<>>]

Start(l) ==
    /\ loop = l
    /\ regs = <<>>
    /\ ncalls = 0
    /\ cs = "SET"
    /\ call = NoCall
    /\ log = <<>>
    /\ status = <<>>
    /\ pData = <<>>
    /\ pTemperature = <<>>
    /\ fault = FALSE

\* what every call does to the transport and the pin
Effect(o) ==
    /\ log' = o.log
    /\ cs' = CsAfter(cs, o.log)
    /\ status' = o.status
    /\ regs' = o.regs
    /\ fault' = o.fault
    /\ UNCHANGED loop

(* On the mock transport the caller makes one call, looks at what it returned *)
(* and what the transport recorded, and clears the record before the next.   *)

Idle == ~fault /\ ~loop /\ call = NoCall

ADT7320_Init ==
    /\ Idle
    /\ \E hnd \in Handles :
         /\ call' = [fn |-> "Init", hnd |-> hnd, reg |-> 0, size |-> 0, data |-> 0, old |-> <<>>]
         /\ \E o \in InitOutcomes(hnd) :
              /\ Effect(o)
              /\ pData' = <<>>
              /\ pTemperature' = <<>>
    /\ UNCHANGED ncalls

ADT7320_ReadRegister ==
    /\ Idle
    /\ \E hnd \in Handles, reg \in 0 .. MaxReg, dataSize \in 0 .. MaxSize, old \in OldData :
         /\ call' = [fn |-> "ReadRegister", hnd |-> hnd, reg |-> reg, size |-> dataSize,
                     data |-> 0, old |-> <<old>>]
         /\ \E o \in ReadRegisterOutcomes(hnd, reg, dataSize, old) :
              /\ Effect(o)
              /\ pData' = <<o.out>>
              /\ pTemperature' = <<>>
    /\ UNCHANGED ncalls

ADT7320_WriteRegister ==
    /\ Idle
    /\ \E hnd \in Handles, reg \in 0 .. MaxReg, dataSize \in 0 .. MaxSize, data \in DataSamples :
         /\ call' = [fn |-> "WriteRegister", hnd |-> hnd, reg |-> reg, size |-> dataSize,
                     data |-> data, old |-> <<>>]
         /\ \E o \in WriteRegisterOutcomes(hnd, reg, dataSize, data) :
              /\ Effect(o)
              /\ pData' = <<>>
              /\ pTemperature' = <<>>
    /\ UNCHANGED ncalls

ADT7320_ReadTemperature ==
    /\ Idle
    /\ \E hnd \in Handles, old \in OldTemperature :
         /\ call' = [fn |-> "ReadTemperature", hnd |-> hnd, reg |-> 0, size |-> 0,
                     data |-> 0, old |-> <<old>>]
         /\ \E o \in ReadTemperatureOutcomes(hnd, old) :
              /\ Effect(o)
              /\ pData' = <<o.data>>
              /\ pTemperature' = <<o.out>>
    /\ UNCHANGED ncalls

\* the caller goes on: the record of the last call is cleared, the pin stays
Continue ==
    /\ ~fault /\ ~loop /\ call # NoCall
    /\ call' = NoCall
    /\ log' = <<>>
    /\ status' = <<>>
    /\ pData' = <<>>
    /\ pTemperature' = <<>>
    /\ UNCHANGED <<loop, regs, ncalls, cs, fault>>

Next ==
    \/ ADT7320_Init
    \/ ADT7320_ReadRegister
    \/ ADT7320_WriteRegister
    \/ ADT7320_ReadTemperature
    \/ Continue

Init == Start(FALSE)
Spec == Init /\ [][Next]_vars

(* On the loopback device the caller writes and reads registers with valid *)
(* arguments, MaxCalls calls in a row, and the record of a call stays until *)
(* the next one replaces it.                                               *)

LoopReady == ~fault /\ loop /\ ncalls < MaxCalls

LoopWrite ==
    /\ LoopReady
    /\ \E reg \in 0 .. MaxReg, dataSize \in 1 .. 2, data \in DataSamples :
         /\ call' = [fn |-> "WriteRegister", hnd |-> "valid", reg |-> reg, size |-> dataSize,
                     data |-> data, old |-> <<>>]
         /\ \E o \in WriteRegisterOutcomes("valid", reg, dataSize, data) :
              /\ Effect(o)
              /\ pData' = <<>>
              /\ pTemperature' = <<>>
    /\ ncalls' = ncalls + 1

LoopRead ==
    /\ LoopReady
    /\ \E reg \in 0 .. MaxReg, dataSize \in 1 .. 2, old \in OldData :
         /\ call' = [fn |-> "ReadRegister", hnd |-> "valid", reg |-> reg, size |-> dataSize,
                     data |-> 0, old |-> <<old>>]
         /\ \E o \in ReadRegisterOutcomes("valid", reg, dataSize, old) :
              /\ Effect(o)
              /\ pData' = <<o.out>>
              /\ pTemperature' = <<>>
    /\ ncalls' = ncalls + 1

NextLoop ==
    \/ LoopWrite
    \/ LoopRead

InitLoop == Start(TRUE)
SpecLoop == InitLoop /\ [][NextLoop]_vars

----------------------------------------------------------------------------
(* Properties *)

RegisterCall == call.fn \in {"ReadRegister", "WriteRegister"}
Returned == status # <<>>
\* the arguments the documentation calls valid
ValidArgs ==
    /\ call.fn # "none"
    /\ call.hnd = "valid"
    /\ RegisterCall => call.size \in {1, 2}
SpiCalls == SelectSeq(log, IsSpi)
GpioCalls == SelectSeq(log, IsGpio)
\* the 16-bit two's-complement value of r
TwosComplement16(r) == IF r < 32768 THEN r ELSE r - 65536
\* d | ((a & 0x1F) << 3) as 8 bits for a in 0..31, a << 3 having bit 6 set
\* exactly when a has bit 3 set
ExpectedCommand(d, a) ==
    LET field == (a % 32) * 8
    IN  (IF d = 64 /\ (a \div 8) % 2 = 0 THEN field + 64 ELSE field) % 256
\* the big-endian bytes of the low s bytes of v, s in {1, 2}
BigEndianBytes(s, v) == IF s = 1 THEN <<v % 256>> ELSE <<(v \div 256) % 256, v % 256>>
\* the big-endian value of one or two bytes
BigEndianValue(b) == IF Len(b) = 1 THEN b[1] ELSE b[1] * 256 + b[2]

\* C1: read_register and write_register with a valid handle and a size outside
\* {1, 2} return error and make no chip-select and no transport call, and no
\* transaction carries a register payload of other than 1 or 2 bytes.
C1_InvalidSizeRejected ==
    (RegisterCall /\ call.hnd = "valid") =>
        /\ call.size \notin {1, 2} => (status = <<ADT7320_ERROR>> /\ log = <<>>)
        /\ \A i \in 1 .. Len(log) : IsSpi(log[i]) => Len(log[i].tx) - 1 \in {1, 2}

\* C2: each of the four operations called with a null handle returns error and
\* makes no chip-select call and no transport call, whatever its other arguments.
C2_NullHandleRejected ==
    (call.fn # "none" /\ call.hnd = "NULL") =>
        (status = <<ADT7320_ERROR>> /\ log = <<>> /\ cs = "SET")

C2_Witness ==
    /\ call.fn = "WriteRegister" /\ call.hnd = "NULL" /\ call.size = 2 /\ call.data = 62976
    /\ status = <<ADT7320_ERROR>>

\* C3: a call with valid arguments asserts chip-select once, before its single
\* exchange, and deasserts it once, after the exchange, whatever the transport
\* answers; chip-select is deasserted whenever no call is running.
C3_ChipSelectFraming ==
    /\ cs = "SET"
    /\ (ValidArgs /\ Returned) =>
          /\ Len(log) = 3
          /\ IsGpio(log[1]) /\ log[1].pin = "RESET"
          /\ IsSpi(log[2])
          /\ IsGpio(log[3]) /\ log[3].pin = "SET"

C3_Witness ==
    /\ call.fn = "ReadRegister" /\ ValidArgs /\ status = <<ADT7320_TIMEOUT>>
    /\ Len(GpioCalls) = 2 /\ cs = "SET"

\* C4: a call with valid arguments makes exactly one exchange and returns the
\* transport's result code for it, for success, error, busy and timeout alike.
C4_StatusPropagated ==
    (ValidArgs /\ Returned) =>
        /\ Len(SpiCalls) = 1
        /\ status = <<SpiCalls[1].ret>>

C4_Witness ==
    /\ call.fn = "ReadTemperature" /\ ValidArgs /\ status = <<ADT7320_BUSY>>
    /\ Len(SpiCalls) = 1 /\ SpiCalls[1].ret = 2

\* C5: on the loopback device, write_register(a, s, v) with s in {1, 2}, v
\* representable in s bytes and a in 0..31, followed by read_register(a, s),
\* returns success and yields v.
C5_RoundTrip ==
    [][(/\ loop
        /\ call.fn = "WriteRegister" /\ call.hnd = "valid" /\ status = <<ADT7320_OK>>
        /\ call.size \in {1, 2} /\ call.reg \in 0 .. 31
        /\ call.data < Pow2(8 * call.size)
        /\ call'.fn = "ReadRegister" /\ call'.hnd = "valid"
        /\ call'.reg = call.reg /\ call'.size = call.size)
       => (status' = <<ADT7320_OK>> /\ pData' = <<call.data>>)]_vars

\* C6: for every register address in 0..31 bit 6 of the command byte is 1 when
\* read_register sends it and 0 when write_register sends it, and the bits
\* below the shifted address field are zero.
C6_DirectionBit ==
    (RegisterCall /\ call.reg \in 0 .. 31) =>
        \A i \in 1 .. Len(log) :
            IsSpi(log[i]) =>
                /\ (log[i].tx[1] \div 64) % 2 = (IF call.fn = "ReadRegister" THEN 1 ELSE 0)
                /\ log[i].tx[1] % 8 = 0
                /\ log[i].tx[1] < 256

\* C7: after a successful read_temperature the temperature t satisfies
\* t * 128 = the two's-complement value of the raw 16-bit value read from the
\* temperature register (address 2, size 2); 0x2300 gives +70, 0xF600 gives -20.
C7_TemperatureConversion ==
    (call.fn = "ReadTemperature" /\ status = <<ADT7320_OK>>) =>
        /\ Len(SpiCalls) = 1
        /\ SpiCalls[1].tx = <<80, 0, 0>>
        /\ pData = <<BigEndianValue(SpiCalls[1].rx)>>
        /\ pTemperature[1].num * 128 = TwosComplement16(pData[1]) * pTemperature[1].den
        /\ pData = <<8960>> => pTemperature = <<[num |-> 70, den |-> 1]>>
        /\ pData = <<62976>> => pTemperature = <<[num |-> -20, den |-> 1]>>

C7_Witness ==
    /\ call.fn = "ReadTemperature" /\ status = <<ADT7320_OK>>
    /\ pData = <<62976>> /\ pTemperature = <<[num |-> -20, den |-> 1]>>

\* C8: initialize with a valid handle makes exactly one transmit, of exactly
\* four bytes 0xFF and nothing else, between the assertion and the release of
\* chip-select.
C8_ResetSequence ==
    (call.fn = "Init" /\ call.hnd = "valid") =>
        /\ Len(log) = 3
        /\ log[1] = GpioWrite("RESET")
        /\ log[2].fn = "HAL_SPI_Transmit" /\ log[2].tx = <<255, 255, 255, 255>>
        /\ log[3] = GpioWrite("SET")

C8_Witness ==
    /\ call.fn = "Init" /\ call.hnd = "valid" /\ status = <<ADT7320_OK>>
    /\ Len(SpiCalls) = 1

\* C9: a register transaction with a valid handle, size s in {1, 2} and address
\* a in 0..31 is one transfer of s + 1 bytes, the first d | ((a & 0x1F) << 3);
\* write_register sends the value's s bytes most-significant first, and
\* read_register outputs the big-endian value of the s bytes received.
C9_Framing ==
    (RegisterCall /\ ValidArgs /\ call.reg \in 0 .. 31) =>
        /\ Len(SpiCalls) = 1
        /\ Len(SpiCalls[1].tx) = call.size + 1
        /\ call.fn = "WriteRegister" =>
              /\ SpiCalls[1].fn = "HAL_SPI_Transmit"
              /\ SpiCalls[1].tx[1] = ExpectedCommand(0, call.reg)
              /\ Tail(SpiCalls[1].tx) = BigEndianBytes(call.size, call.data)
        /\ call.fn = "ReadRegister" =>
              /\ SpiCalls[1].fn = "HAL_SPI_TransmitReceive"
              /\ SpiCalls[1].tx[1] = ExpectedCommand(64, call.reg)
              /\ Len(SpiCalls[1].rx) = call.size
              /\ pData = <<BigEndianValue(SpiCalls[1].rx)>>

C9_Witness ==
    /\ call.fn = "ReadRegister" /\ ValidArgs /\ call.reg = 31 /\ call.size = 2
    /\ SpiCalls[1].tx = <<248, 0, 0>> /\ SpiCalls[1].rx = <<35, 0>>
    /\ pData = <<8960>>

\* C10 as stated: a read that returns anything but success leaves the caller's
\* output location as it was, for read_register and for read_temperature.
C10_OutputUntouchedOnFailure ==
    (Returned /\ status # <<ADT7320_OK>>) =>
        /\ call.fn = "ReadRegister" => pData = call.old
        /\ call.fn = "ReadTemperature" => pTemperature = call.old

\* C10 amended: read_temperature that returns anything but success leaves the
\* temperature output as it was.  read_register leaves its output as it was
\* when it rejects its arguments (null handle or size 0); when the exchange of
\* a read of size 1 or 2 fails, it still overwrites the output with the
\* big-endian value of the bytes the buffer then holds.
C10_OutputOnFailure ==
    (Returned /\ status # <<ADT7320_OK>>) =>
        /\ call.fn = "ReadTemperature" => pTemperature = call.old
        /\ (call.fn = "ReadRegister" /\ (call.hnd = "NULL" \/ call.size = 0)) =>
              pData = call.old
        /\ (call.fn = "ReadRegister" /\ ValidArgs) =>
              pData = <<BigEndianValue(SpiCalls[1].rx)>>

C10_Witness ==
    /\ call.fn = "ReadRegister" /\ ValidArgs /\ status = <<ADT7320_TIMEOUT>>
    /\ call.old = <<48879>> /\ pData = <<8960>>

\* the round trip of C5 for the addresses whose bit 3 is clear
RoundTripBit3Clear ==
    [][(/\ loop
        /\ call.fn = "WriteRegister" /\ call.hnd = "valid" /\ status = <<ADT7320_OK>>
        /\ call.size \in {1, 2} /\ call.reg \in 0 .. 31 /\ (call.reg \div 8) % 2 = 0
        /\ call.data < Pow2(8 * call.size)
        /\ call'.fn = "ReadRegister" /\ call'.hnd = "valid"
        /\ call'.reg = call.reg /\ call'.size = call.size)
       => (status' = <<ADT7320_OK>> /\ pData' = <<call.data>>)]_vars

====
